---- MODULE Spec2Model ----
(***************************************************************************)
(* cMonkey microarray scoring (src/cmonkey/microarray.py): row scores,     *)
(* column scores, the column seeding heuristic and the order() helper.     *)
(*                                                                         *)
(* Numbers are modelled exactly: a finite number is a reduced fraction,    *)
(* NaN and +/-infinity follow the IEEE rules numpy applies, and the        *)
(* natural logarithm is kept symbolic (ln of a fraction plus 1e-99), which *)
(* is injective and monotonic, as the logarithm is.                        *)
(***************************************************************************)
EXTENDS Integers, Sequences, FiniteSets, TLC

VARIABLES api, matrix, membership, num_clusters, row_membership,
          num_clusters_per_column, alist,
          pc, fn, cluster_scores, qvalue, result, prev_fn, prev_result,
          written, other_membership, other_clusters, other_cluster_scores

vars == <<api, matrix, membership, num_clusters, row_membership,
          num_clusters_per_column, alist,
          pc, fn, cluster_scores, qvalue, result, prev_fn, prev_result,
          written, other_membership, other_clusters, other_cluster_scores>>

inputs == <<api, matrix, membership, num_clusters, row_membership,
            num_clusters_per_column, alist>>

\* the arguments no statement of the module assigns into
read_only == <<api, membership, num_clusters, row_membership,
               num_clusters_per_column, alist>>

\* a second membership, the order its clusters are processed in, and the
\* per-cluster scores computed with it
comparison == <<other_membership, other_clusters, other_cluster_scores>>

(***************************************************************************)
(* Numbers                                                                 *)
(***************************************************************************)
RECURSIVE GCD(_, _)
GCD(a, b) == IF b = 0 THEN a ELSE GCD(b, a % b)

AbsInt(i) == IF i < 0 THEN -i ELSE i

\* the finite number n/d (d > 0), reduced
Fin(n, d) ==
    LET g == GCD(AbsInt(n), d)
    IN  [k |-> "fin", n |-> n \div g, d |-> d \div g]

NaN == [k |-> "nan"]
PInf == [k |-> "inf", n |-> 1]
NInf == [k |-> "inf", n |-> -1]
Inf(s) == IF s < 0 THEN NInf ELSE PInf

Sign(x) == IF x.n < 0 THEN -1 ELSE IF x.n > 0 THEN 1 ELSE 0

Neg(x) ==
    IF x.k = "fin" THEN Fin(-x.n, x.d)
    ELSE IF x.k = "inf" THEN Inf(-x.n)
    ELSE NaN

Add(x, y) ==
    IF x.k = "nan" \/ y.k = "nan" THEN NaN
    ELSE IF x.k = "inf" /\ y.k = "inf" THEN (IF x.n = y.n THEN x ELSE NaN)
    ELSE IF x.k = "inf" THEN x
    ELSE IF y.k = "inf" THEN y
    ELSE Fin(x.n * y.d + y.n * x.d, x.d * y.d)

Sub(x, y) == Add(x, Neg(y))

Mul(x, y) ==
    IF x.k = "nan" \/ y.k = "nan" THEN NaN
    ELSE IF x.k = "inf" \/ y.k = "inf"
         THEN (IF Sign(x) * Sign(y) = 0 THEN NaN ELSE Inf(Sign(x) * Sign(y)))
    ELSE Fin(x.n * y.n, x.d * y.d)

Div(x, y) ==
    IF x.k = "nan" \/ y.k = "nan" THEN NaN
    ELSE IF x.k = "inf" /\ y.k = "inf" THEN NaN
    ELSE IF x.k = "inf" THEN Inf(x.n * (IF Sign(y) < 0 THEN -1 ELSE 1))
    ELSE IF y.k = "inf" THEN Fin(0, 1)
    ELSE IF y.n = 0 THEN (IF x.n = 0 THEN NaN ELSE Inf(x.n))
    ELSE Fin(x.n * y.d * Sign(y), x.d * AbsInt(y.n))

Abs(x) ==
    IF x.k = "fin" THEN Fin(AbsInt(x.n), x.d)
    ELSE IF x.k = "inf" THEN PInf
    ELSE NaN

Square(x) == Mul(x, x)

\* numpy.log(x + 1e-99): [k |-> "ln", n, d] stands for ln(n/d + 1e-99)
LogPlusEps(x) ==
    IF x.k = "nan" THEN NaN
    ELSE IF x.k = "inf" THEN (IF x.n > 0 THEN PInf ELSE NaN)
    ELSE IF x.n < 0 THEN NaN
    ELSE [k |-> "ln", n |-> x.n, d |-> x.d]

isfinite(x) == x.k \notin {"nan", "inf"}

\* body with x bound to the value of v, evaluated once
Let(v, body(_)) == CHOOSE w \in {body(x) : x \in {v}} : TRUE

RECURSIVE SumSeq(_)
SumSeq(s) == IF s = <<>> THEN Fin(0, 1) ELSE Add(Head(s), SumSeq(Tail(s)))

\* numpy mean: the mean of no values is NaN (0/0)
Mean(s) == Div(SumSeq(s), Fin(Len(s), 1))

(***************************************************************************)
(* DataMatrix and Membership (datamatrix.py and membership are not part of *)
(* the sources at hand; modelled from the interface the scorers consume)   *)
(***************************************************************************)
\* all names the model uses, in ascending (string) order
NameOrder == <<"c1", "c2", "c3", "gA", "gB", "gC", "gD">>
NameRank(name) == CHOOSE i \in 1..Len(NameOrder) : NameOrder[i] = name

Range(s) == {s[i] : i \in 1..Len(s)}

DataMatrix(rnames, cnames, vals) ==
    [row_names |-> rnames, col_names |-> cnames, values |-> vals]

None == [k |-> "None"]
IsNone(x) == "k" \in DOMAIN x

\* default names of a DataMatrix built without names: its indexes
DefaultNames(n) == [i \in 1..n |-> i - 1]

num_rows(m) == Len(m.row_names)
num_columns(m) == Len(m.col_names)

\* the indexes of names that are wanted, in the order of names
RECURSIVE IndexesOf(_, _, _)
IndexesOf(names, wanted, i) ==
    IF i > Len(names) THEN <<>>
    ELSE (IF names[i] \in wanted THEN <<i>> ELSE <<>>)
         \o IndexesOf(names, wanted, i + 1)

\* submatrix_by_name: a new matrix of the named rows and columns, in the
\* matrix's own order; an omitted argument is passed as all the names
submatrix_by_name(m, rnames, cnames) ==
    Let(<<IndexesOf(m.row_names, rnames, 1), IndexesOf(m.col_names, cnames, 1)>>,
        LAMBDA ix :
            DataMatrix([i \in 1..Len(ix[1]) |-> m.row_names[ix[1][i]]],
                       [j \in 1..Len(ix[2]) |-> m.col_names[ix[2][j]]],
                       [i \in 1..Len(ix[1]) |->
                           [j \in 1..Len(ix[2]) |-> m.values[ix[1][i]][ix[2][j]]]]))

\* the column means of an array of rows that has ncols columns
column_means_of(vals, ncols) ==
    [j \in 1..ncols |-> Mean([i \in 1..Len(vals) |-> vals[i][j]])]

column_means(m) == column_means_of(m.values, num_columns(m))

row_means_of(vals) == [i \in 1..Len(vals) |-> Mean(vals[i])]

\* the indexes of the rows in ascending order of their names
RECURSIVE IndexesByRank(_, _)
IndexesByRank(names, r) ==
    IF r > Len(NameOrder) THEN <<>>
    ELSE IndexesOf(names, {NameOrder[r]}, 1) \o IndexesByRank(names, r + 1)

sorted_by_row_name(m) ==
    Let(IndexesByRank(m.row_names, 1),
        LAMBDA ix :
            DataMatrix([i \in 1..Len(ix) |-> m.row_names[ix[i]]],
                       m.col_names,
                       [i \in 1..Len(ix) |-> m.values[ix[i]]]))

rows_for_cluster(ms, cluster) ==
    {g \in DOMAIN ms.rows : cluster \in ms.rows[g]}

columns_for_cluster(ms, cluster) ==
    {c \in DOMAIN ms.cols : cluster \in ms.cols[c]}

is_row_member_of(ms, gene, cluster) ==
    gene \in DOMAIN ms.rows /\ cluster \in ms.rows[gene]

(***************************************************************************)
(* util.quantile(values, 0.95): the 95th percentile by linear              *)
(* interpolation between the two closest ranks                             *)
(***************************************************************************)
\* scores in the pool are finite row scores, ln(n/d + 1e-99)
ScoreLeq(x, y) == x.n * y.d <= y.n * x.d

RECURSIVE InsertSorted(_, _)
InsertSorted(x, s) ==
    IF s = <<>> THEN <<x>>
    ELSE IF ScoreLeq(x, Head(s)) THEN <<x>> \o s
    ELSE <<Head(s)>> \o InsertSorted(x, Tail(s))

RECURSIVE SortScores(_)
SortScores(s) ==
    IF s = <<>> THEN <<>> ELSE InsertSorted(Head(s), SortScores(Tail(s)))

\* the value at 0-based position h = (n - 1) * 95 / 100 of the sorted pool,
\* lo + (h - floor(h)) * (hi - lo), kept symbolic when it lies between two
\* different scores
quantile95(values) ==
    Let(SortScores(values),
        LAMBDA s :
            LET n == Len(s)
                h100 == (n - 1) * 95
                lo == (h100 \div 100) + 1
                f == h100 % 100
            IN  IF n = 0 THEN NaN
                ELSE IF f = 0 \/ s[lo] = s[lo + 1] THEN s[lo]
                ELSE [k |-> "mix", lo |-> s[lo], hi |-> s[lo + 1],
                      f |-> Fin(f, 100)])

(***************************************************************************)
(* Row scores                                                              *)
(***************************************************************************)
\* subtract vector from each row of the rows vals, square every difference
subtract_and_square(vals, vector) ==
    [i \in 1..Len(vals) |->
        [j \in 1..Len(vals[i]) |-> Square(Sub(vals[i][j], vector[j]))]]

\* m is the matrix filtered by the cluster's columns, sub the cluster's
\* member rows and columns; one row of scores, named by the rows of m
compute_row_scores_for_submatrix(m, sub) ==
    Let(column_means(sub), LAMBDA colmeans :
    Let(subtract_and_square(m.values, colmeans), LAMBDA matrix_minus_colmeans_squared :
    Let(row_means_of(matrix_minus_colmeans_squared), LAMBDA rowmeans :
        DataMatrix(<<"Row Scores">>, m.row_names,
                   <<[i \in 1..Len(rowmeans) |-> LogPlusEps(rowmeans[i])]>>))))

\* as row_scores_for_cluster, but the column means are taken over all
\* the rows of the matrix instead of the cluster's member rows
row_scores_with_means_of_all_rows(ms, m, cluster) ==
    Let(submatrix_by_name(m, Range(m.row_names),
                          columns_for_cluster(ms, cluster)), LAMBDA matrix_filtered :
        IF num_columns(matrix_filtered) > 1
        THEN compute_row_scores_for_submatrix(matrix_filtered, matrix_filtered)
        ELSE None)

\* as row_scores_for_cluster, the column means taken over the genes of
\* every cluster
row_scores_with_means_of_clustered_rows(ms, m, cluster) ==
    Let(submatrix_by_name(m, {g \in Range(m.row_names) : ms.rows[g] # {}},
                          columns_for_cluster(ms, cluster)), LAMBDA sm1 :
        IF num_columns(sm1) > 1
        THEN Let(submatrix_by_name(m, Range(m.row_names),
                                   columns_for_cluster(ms, cluster)),
                 LAMBDA matrix_filtered :
                     compute_row_scores_for_submatrix(matrix_filtered, sm1))
        ELSE None)

\* the raw row scores of one cluster, None when the member sub-matrix has
\* at most one column
row_scores_for_cluster(ms, m, cluster) ==
    Let(submatrix_by_name(m, rows_for_cluster(ms, cluster),
                          columns_for_cluster(ms, cluster)), LAMBDA sm1 :
        IF num_columns(sm1) > 1
        THEN Let(submatrix_by_name(m, Range(m.row_names),
                                   columns_for_cluster(ms, cluster)),
                 LAMBDA matrix_filtered :
                     compute_row_scores_for_submatrix(matrix_filtered, sm1))
        ELSE None)

compute_row_scores_for_clusters(ms, m, n) ==
    [cluster \in 1..n |-> row_scores_for_cluster(ms, m, cluster)]

\* the pure row scores for the clusters of the list, one entry per cluster
\* in the order of the list
compute_row_scores_for_clusters_in(ms, m, clusters) ==
    [i \in 1..Len(clusters) |-> row_scores_for_cluster(ms, m, clusters[i])]

\* as cluster_values_for_quantile, without the test of membership
RECURSIVE cluster_values_of_any_row(_, _, _, _)
cluster_values_of_any_row(rs, ms, cluster, col_index) ==
    IF col_index > num_columns(rs) THEN <<>>
    ELSE (IF isfinite(rs.values[1][col_index])
          THEN <<rs.values[1][col_index]>> ELSE <<>>)
         \o cluster_values_of_any_row(rs, ms, cluster, col_index + 1)

\* the scores of one cluster that enter the quantile pool
RECURSIVE cluster_values_for_quantile(_, _, _, _)
cluster_values_for_quantile(rs, ms, cluster, col_index) ==
    IF col_index > num_columns(rs) THEN <<>>
    ELSE (IF isfinite(rs.values[1][col_index])
             /\ is_row_member_of(ms, rs.col_names[col_index], cluster)
          THEN <<rs.values[1][col_index]>> ELSE <<>>)
         \o cluster_values_for_quantile(rs, ms, cluster, col_index + 1)

\* as values_for_quantile, but the list of values outlives the call: a
\* later call appends to the values of the call before it
RECURSIVE values_of_this_call(_, _, _)
values_of_this_call(crs, ms, cluster) ==
    IF cluster > Len(crs) THEN <<>>
    ELSE (IF ~IsNone(crs[cluster])
          THEN cluster_values_for_quantile(crs[cluster], ms, cluster, 1)
          ELSE <<>>)
         \o values_of_this_call(crs, ms, cluster + 1)

values_kept_between_calls(crs, ms, cluster) ==
    (IF cluster = 1 /\ fn = "compute_row_scores"
     THEN values_of_this_call(cluster_scores, ms, 1) ELSE <<>>)
    \o values_of_this_call(crs, ms, cluster)

RECURSIVE values_for_quantile(_, _, _)
values_for_quantile(crs, ms, cluster) ==
    IF cluster > Len(crs) THEN <<>>
    ELSE (IF ~IsNone(crs[cluster])
          THEN cluster_values_for_quantile(crs[cluster], ms, cluster, 1)
          ELSE <<>>)
         \o values_for_quantile(crs, ms, cluster + 1)

quantile_normalize_scores(crs, ms) == quantile95(values_for_quantile(crs, ms, 1))

\* what util.quantile can do with the pool: of an empty pool the quantile
\* is undefined, the call either fails or yields NaN
Fault == [k |-> "fault"]
quantile_outcomes(crs, ms) ==
    IF values_for_quantile(crs, ms, 1) = <<>> THEN {NaN, Fault}
    ELSE {quantile_normalize_scores(crs, ms)}

\* as replace_non_numeric_values, but only whole missing clusters are filled
replace_missing_clusters_only(crs, q, m) ==
    [c \in 1..Len(crs) |->
        IF IsNone(crs[c])
        THEN DataMatrix(DefaultNames(1), m.row_names,
                        <<[i \in 1..num_rows(m) |-> q]>>)
        ELSE crs[c]]

\* perform adjustments for NaN or inf values, with the quantile q
replace_non_numeric_values(crs, q, m) ==
    [c \in 1..Len(crs) |->
        IF IsNone(crs[c])
        THEN DataMatrix(DefaultNames(1), m.row_names,
                        <<[i \in 1..num_rows(m) |-> q]>>)
        ELSE [crs[c] EXCEPT !.values =
                 [r \in 1..Len(@) |->
                     [j \in 1..Len(@[r]) |->
                         IF ~isfinite(@[r][j]) THEN q ELSE @[r][j]]]]]

\* as assemble_row_scores, returned without sorting the rows
assemble_row_scores_unsorted(m, n, crs) ==
    DataMatrix(m.row_names, DefaultNames(n),
               [row_index \in 1..num_rows(m) |->
                   [cluster \in 1..n |-> crs[cluster].values[1][row_index]]])

\* rows are indexed by gene, columns represent clusters; sorted by name
assemble_row_scores(m, n, crs) ==
    sorted_by_row_name(
        DataMatrix(m.row_names, DefaultNames(n),
                   [row_index \in 1..num_rows(m) |->
                       [cluster \in 1..n |-> crs[cluster].values[1][row_index]]]))

(***************************************************************************)
(* Column scores                                                           *)
(***************************************************************************)
compute_column_scores_submatrix(m) ==
    Let(column_means(m), LAMBDA colmeans :
    Let(subtract_and_square(m.values, colmeans), LAMBDA matrix_minus_colmeans_squared :
    Let([j \in 1..Len(colmeans) |-> Add(Abs(colmeans[j]), Fin(1, 100))], LAMBDA var_norm :
    Let(column_means_of(matrix_minus_colmeans_squared, num_columns(m)), LAMBDA means :
        DataMatrix(<<"Col. Scores">>, m.col_names,
                   <<[j \in 1..num_columns(m) |-> Div(means[j], var_norm[j])]>>)))))

\* as column_scores_for_cluster, but the means of the cluster's member rows
\* are subtracted from all the rows of the matrix
column_scores_over_all_rows(ms, m, cluster) ==
    Let(submatrix_by_name(m, rows_for_cluster(ms, cluster), Range(m.col_names)),
        LAMBDA submatrix :
    Let(column_means(submatrix), LAMBDA colmeans :
    Let(column_means_of(subtract_and_square(m.values, colmeans), num_columns(m)),
        LAMBDA means :
        DataMatrix(<<"Col. Scores">>, m.col_names,
                   <<[j \in 1..num_columns(m) |->
                        Div(means[j], Add(Abs(colmeans[j]), Fin(1, 100)))]>>))))

\* "submatrix.num_rows > 1" compares the bound method num_rows, not its
\* value, with 1: Python 2 orders any method above any number
num_rows_method_gt(submatrix, n) == TRUE

column_scores_for_cluster(ms, m, cluster) ==
    Let(submatrix_by_name(m, rows_for_cluster(ms, cluster), Range(m.col_names)),
        LAMBDA submatrix :
            IF num_rows_method_gt(submatrix, 1)
            THEN compute_column_scores_submatrix(submatrix)
            ELSE None)

cluster_column_scores(ms, m, n) ==
    [cluster \in 1..n |-> column_scores_for_cluster(ms, m, cluster)]

\* indexing None faults: it happens when a cluster has no scores and the
\* matrix has a column to fill
assemble_faults(m, ccs) ==
    num_columns(m) > 0 /\ \E c \in 1..Len(ccs) : IsNone(ccs[c])

\* clusters as columns and conditions in the rows
assemble_column_scores(m, n, ccs) ==
    DataMatrix(m.col_names, DefaultNames(n),
               [row_index \in 1..num_columns(m) |->
                   [cluster \in 1..n |-> ccs[cluster].values[1][row_index]]])

(***************************************************************************)
(* Seeding                                                                 *)
(***************************************************************************)
\* does x sort before y in descending order
NumGt(x, y) == x.n * y.d > y.n * x.d

\* as sorted_reverse, but ascending
sorted_ascending(s) == SortScores(s)

\* sorted(alist, reverse=True)
RECURSIVE InsertDescending(_, _)
InsertDescending(x, s) ==
    IF s = <<>> THEN <<x>>
    ELSE IF NumGt(x, Head(s)) THEN <<x>> \o s
    ELSE <<Head(s)>> \o InsertDescending(x, Tail(s))

RECURSIVE sorted_reverse(_)
sorted_reverse(s) ==
    IF s = <<>> THEN <<>>
    ELSE InsertDescending(s[Len(s)], sorted_reverse(SubSeq(s, 1, Len(s) - 1)))

\* as index, but the greatest position that holds item
index_of_last(s, item) == (CHOOSE i \in 1..Len(s) :
                              s[i] = item /\ \A j \in (i + 1)..Len(s) : s[j] # item) - 1

\* alist.index(item): the least 0-based position that holds item
index(s, item) == (CHOOSE i \in 1..Len(s) :
                      s[i] = item /\ \A j \in 1..(i - 1) : s[j] # item) - 1

order(s) ==
    Let(<<s, sorted_reverse(s)>>,
        LAMBDA v : [p \in 1..Len(v[1]) |-> index(v[1], v[2][p]) + 1])

\* as seed_scores_for_cluster, but the scores are not negated
seed_scores_not_negated(m, rm, cluster_num) ==
    Let({m.row_names[i] : i \in {r \in 1..num_rows(m) : rm[r][1] = cluster_num}},
        LAMBDA current_cluster_rows :
            compute_column_scores_submatrix(
                submatrix_by_name(m, current_cluster_rows, Range(m.col_names))).values[1])

\* the negated column scores of the rows whose first cluster is cluster_num
seed_scores_for_cluster(m, rm, cluster_num) ==
    Let({m.row_names[i] : i \in {r \in 1..num_rows(m) : rm[r][1] = cluster_num}},
        LAMBDA current_cluster_rows :
    Let(submatrix_by_name(m, current_cluster_rows, Range(m.col_names)),
        LAMBDA submatrix :
    Let(compute_column_scores_submatrix(submatrix).values[1],
        LAMBDA scores : [j \in 1..Len(scores) |-> Neg(scores[j])])))

Take(s, n) == SubSeq(s, 1, IF n < Len(s) THEN n ELSE Len(s))

\* column_scores: per cluster the negated scores of its sub-matrix
seed_column_scores(m, rm, n) ==
    [c \in 1..n |-> seed_scores_for_cluster(m, rm, c)]

\* per column the clusters in the order of their scores, the first
\* per_column of them
seed_column_members(m, n, per_column, column_scores) ==
    [column_index \in 1..num_columns(m) |->
        Take(order([row_index \in 1..n |-> column_scores[row_index][column_index]]),
             per_column)]

(***************************************************************************)
(* Writes: the item assignments m[row][col] = value of a call, each with   *)
(* the matrix object it goes to                                            *)
(***************************************************************************)
Object(name, cluster) == [name |-> name, cluster |-> cluster]

\* the matrix the caller passed in
InputMatrix == Object("matrix", 0)

\* the matrix of row scores __compute_row_scores_for_submatrix creates for
\* a cluster
row_scores_object(cluster) == Object("row_scores", cluster)

\* the result matrix a scoring call creates
result_object == Object("result", 0)

Write(object, row, col, value) ==
    [object |-> object, row |-> row, col |-> col, value |-> value]

\* as replacement_writes, with the input matrix as the target
replacement_writes_to_input(crs, q) ==
    {Write(InputMatrix, 1, p[2], q) :
        p \in {x \in (1..Len(crs)) \X (1..Len(matrix.row_names)) :
                  /\ ~IsNone(crs[x[1]])
                  /\ ~isfinite(crs[x[1]].values[1][x[2]])}}

\* row_scores[row_index][col_index] = qvalue for every non-finite score of
\* a cluster whose scores were computed
replacement_writes(crs, q) ==
    {Write(row_scores_object(p[1]), 1, p[2], q) :
        p \in {x \in (1..Len(crs)) \X (1..Len(matrix.row_names)) :
                  /\ ~IsNone(crs[x[1]])
                  /\ ~isfinite(crs[x[1]].values[1][x[2]])}}

\* result[row_index][cluster] = scores[0][row_index]
assembly_writes(nrows, n, scores) ==
    {Write(result_object, p[1], p[2], scores[p[2]].values[1][p[1]]) :
        p \in (1..nrows) \X (1..n)}

\* the matrix m, held by the object, after the writes
apply_writes(m, object, writes) ==
    IF \A w \in writes : w.object # object THEN m
    ELSE [m EXCEPT !.values =
             [i \in 1..Len(@) |->
                 [j \in 1..Len(@[i]) |->
                     IF \E w \in writes : w.object = object /\ w.row = i /\ w.col = j
                     THEN (CHOOSE w \in writes :
                              w.object = object /\ w.row = i /\ w.col = j).value
                     ELSE @[i][j]]]]

objects_of(writes) == {w.object : w \in writes}

(***************************************************************************)
(* Inputs: the bounded sets the arguments of one call are drawn from       *)
(***************************************************************************)
MaxVal == 1
MaxClusters == 3
MaxPerColumn == 3
MaxLen == 3
MaxScore == 2

\* clusters of the scoring calls
ScoringClusters == 1..2

\* the orders a list of the clusters 1..n can be in
RECURSIVE ClusterOrders(_)
ClusterOrders(n) ==
    IF n = 0 THEN {<<>>}
    ELSE {[i \in 1..n |-> IF i < k THEN s[i] ELSE IF i = k THEN n ELSE s[i - 1]] :
             s \in ClusterOrders(n - 1), k \in 1..n}

\* a matrix of distinct expression levels; one cell of it may be edited
BaseGrid(nrows, ncols) == [i \in 1..nrows |-> [j \in 1..ncols |-> Fin((i * j) % 3, 1)]]
FiniteEdits == {Fin(-v, 1) : v \in 1..MaxVal}
NonFiniteEdits == {NaN, PInf}

GridsOf(nrows, ncols, editrows, editcols, edits) ==
    {BaseGrid(nrows, ncols)} \cup
    {[BaseGrid(nrows, ncols) EXCEPT ![i][j] = e] :
        i \in editrows, j \in editcols, e \in edits}

\* the matrices of the row-scoring calls: three genes, in the order of
\* their names or not; the first cell may be edited
RowMatrices ==
    {DataMatrix(names, <<"c1", "c2", "c3">>, g) :
        names \in {<<"gA", "gB", "gC">>, <<"gB", "gC", "gA">>},
        g \in GridsOf(3, 3, {1}, {1}, FiniteEdits \cup NonFiniteEdits)}

\* the matrices of the column-scoring calls
ColumnMatrices ==
    {DataMatrix(<<"gC", "gA", "gB">>, <<"c1", "c2">>, g) :
        g \in GridsOf(3, 2, 1..3, 1..2, FiniteEdits \cup NonFiniteEdits)}

\* the matrices two memberships are compared on
ComparisonMatrices ==
    {DataMatrix(<<"gA", "gB">>, <<"c1", "c2">>, g) :
        g \in GridsOf(2, 2, {1}, {1}, FiniteEdits \cup {NaN})}

\* the matrices of the seeding calls
SeedMatrices ==
    {DataMatrix(<<"gA", "gB", "gC", "gD">>, <<"c1", "c2">>, g) :
        g \in GridsOf(4, 2, 1..4, 1..2, FiniteEdits)}

\* every gene and every condition is in any set of the clusters
MembershipsOf(m, clusters) ==
    {[rows |-> r, cols |-> c] :
        r \in [Range(m.row_names) -> SUBSET clusters],
        c \in [Range(m.col_names) -> SUBSET clusters]}

\* the memberships that give cluster c the genes and conditions ms gives it
MembershipsAgreeingOn(ms, c, clusters) ==
    {[rows |-> [g \in DOMAIN ms.rows |-> (ms.rows[g] \cap {c}) \cup r[g]],
      cols |-> [j \in DOMAIN ms.cols |-> (ms.cols[j] \cap {c}) \cup k[j]]] :
        r \in [DOMAIN ms.rows -> SUBSET (clusters \ {c})],
        k \in [DOMAIN ms.cols -> SUBSET (clusters \ {c})]}

\* column scoring does not read the clusters of the conditions
RowMembershipsOf(m, clusters) ==
    {[rows |-> r, cols |-> [c \in Range(m.col_names) |-> clusters]] :
        r \in [Range(m.row_names) -> SUBSET clusters]}

\* per row the list of its clusters, the primary one first; every cluster
\* is the primary cluster of some row
RowMembershipLists(nrows, n) ==
    {[r \in 1..nrows |-> IF n = 1 THEN <<p[r]>> ELSE <<p[r], (p[r] % n) + 1>>] :
        p \in {q \in [1..nrows -> 1..n] : \A c \in 1..n : \E r \in 1..nrows : q[r] = c}}

RECURSIVE SeqsUpTo(_, _)
SeqsUpTo(S, n) ==
    IF n = 0 THEN {<<>>}
    ELSE LET shorter == SeqsUpTo(S, n - 1)
         IN  shorter \cup {Append(s, x) : s \in {t \in shorter : Len(t) = n - 1}, x \in S}

EmptyMatrix == DataMatrix(<<>>, <<>>, <<>>)
EmptyMembership == [rows |-> <<>>, cols |-> <<>>]

Idle ==
    /\ pc = "ready" /\ fn = "none" /\ prev_fn = "none"
    /\ cluster_scores = <<>> /\ qvalue = None
    /\ result = None /\ prev_result = None
    /\ written = {}
    /\ other_membership = EmptyMembership
    /\ other_clusters = <<>> /\ other_cluster_scores = <<>>

\* a RowScoringFunction(membership, matrix)
InitRowScoring ==
    /\ api = "RowScoringFunction"
    /\ matrix \in RowMatrices
    /\ membership \in MembershipsOf(matrix, ScoringClusters)
    /\ num_clusters = Cardinality(ScoringClusters)
    /\ row_membership = <<>> /\ num_clusters_per_column = 0 /\ alist = <<>>
    /\ Idle

\* a ColumnScoringFunction(membership, matrix)
InitColumnScoring ==
    /\ api = "ColumnScoringFunction"
    /\ matrix \in ColumnMatrices
    /\ membership \in RowMembershipsOf(matrix, ScoringClusters)
    /\ num_clusters = Cardinality(ScoringClusters)
    /\ row_membership = <<>> /\ num_clusters_per_column = 0 /\ alist = <<>>
    /\ Idle

InitSeeding ==
    /\ api = "seed_column_members"
    /\ matrix \in SeedMatrices
    /\ num_clusters \in 1..MaxClusters
    /\ row_membership \in RowMembershipLists(num_rows(matrix), num_clusters)
    /\ num_clusters_per_column \in 0..MaxPerColumn
    /\ membership = EmptyMembership /\ alist = <<>>
    /\ Idle

InitOrder ==
    /\ api = "order"
    /\ alist \in SeqsUpTo({Fin(v, 1) : v \in 0..MaxScore}, MaxLen)
    /\ matrix = EmptyMatrix /\ membership = EmptyMembership
    /\ num_clusters = 0 /\ row_membership = <<>> /\ num_clusters_per_column = 0
    /\ Idle

\* a matrix and a membership whose per-cluster scores are compared with
\* those of a second membership
InitClusterScores ==
    /\ api = "cluster_scores"
    /\ matrix \in ComparisonMatrices
    /\ membership \in MembershipsOf(matrix, ScoringClusters)
    /\ num_clusters = Cardinality(ScoringClusters)
    /\ row_membership = <<>> /\ num_clusters_per_column = 0 /\ alist = <<>>
    /\ Idle

Init == InitRowScoring \/ InitColumnScoring \/ InitSeeding \/ InitOrder
        \/ InitClusterScores

(***************************************************************************)
(* Operations                                                              *)
(***************************************************************************)
\* RowScoringFunction.compute: compute_row_scores
ComputeRowScores ==
    /\ api = "RowScoringFunction" /\ pc # "fault"
    /\ \E crs \in {compute_row_scores_for_clusters(membership, matrix, num_clusters)} :
       \E q \in quantile_outcomes(crs, membership) :
          /\ cluster_scores' = crs
          /\ qvalue' = q
          /\ IF q = Fault
             THEN /\ pc' = "fault" /\ result' = None
                  /\ written' = {} /\ matrix' = matrix
             ELSE /\ pc' = "returned"
                  /\ \E replaced \in {replace_non_numeric_values(crs, q, matrix)} :
                     \E writes \in {replacement_writes(crs, q) \cup
                                     assembly_writes(num_rows(matrix), num_clusters,
                                                     replaced)} :
                        /\ result' = assemble_row_scores(matrix, num_clusters, replaced)
                        /\ written' = objects_of(writes)
                        /\ matrix' = apply_writes(matrix, InputMatrix, writes)
    /\ fn' = "compute_row_scores"
    /\ prev_fn' = fn /\ prev_result' = result
    /\ UNCHANGED comparison
    /\ UNCHANGED read_only

\* ColumnScoringFunction.compute: compute_column_scores
ComputeColumnScores ==
    /\ api = "ColumnScoringFunction" /\ pc # "fault"
    /\ \E ccs \in {cluster_column_scores(membership, matrix, num_clusters)} :
          /\ cluster_scores' = ccs
          /\ IF assemble_faults(matrix, ccs)
             THEN /\ pc' = "fault" /\ result' = None
                  /\ written' = {} /\ matrix' = matrix
             ELSE /\ pc' = "returned"
                  /\ result' = assemble_column_scores(matrix, num_clusters, ccs)
                  /\ \E writes \in {assembly_writes(num_columns(matrix),
                                                     num_clusters, ccs)} :
                        /\ written' = objects_of(writes)
                        /\ matrix' = apply_writes(matrix, InputMatrix, writes)
    /\ qvalue' = None
    /\ fn' = "compute_column_scores"
    /\ prev_fn' = fn /\ prev_result' = result
    /\ UNCHANGED comparison
    /\ UNCHANGED read_only

SeedColumnMembers ==
    /\ api = "seed_column_members" /\ pc # "fault"
    /\ \E column_scores \in {seed_column_scores(matrix, row_membership, num_clusters)} :
          /\ cluster_scores' = column_scores
          /\ result' = seed_column_members(matrix, num_clusters,
                                           num_clusters_per_column, column_scores)
    /\ pc' = "returned"
    /\ qvalue' = None
    /\ fn' = "seed_column_members"
    /\ prev_fn' = fn /\ prev_result' = result
    /\ UNCHANGED comparison
    /\ written' = {} /\ matrix' = apply_writes(matrix, InputMatrix, {})
    /\ UNCHANGED read_only

Order ==
    /\ api = "order" /\ pc # "fault"
    /\ result' = order(alist)
    /\ pc' = "returned"
    /\ cluster_scores' = <<>> /\ qvalue' = None
    /\ fn' = "order"
    /\ prev_fn' = fn /\ prev_result' = result
    /\ written' = {}
    /\ UNCHANGED comparison
    /\ UNCHANGED inputs

\* __compute_row_scores_for_clusters, run once for the membership and once
\* for a second membership with the clusters in any order
RowScoresOfClusters ==
    /\ api = "cluster_scores" /\ pc = "ready"
    /\ \E c \in 1..num_clusters :
       \E other \in MembershipsAgreeingOn(membership, c, 1..num_clusters) :
       \E clusters \in ClusterOrders(num_clusters) :
          /\ other_membership' = other
          /\ other_clusters' = clusters
          /\ cluster_scores' =
                 compute_row_scores_for_clusters_in(membership, matrix,
                                                    [i \in 1..num_clusters |-> i])
          /\ other_cluster_scores' =
                 compute_row_scores_for_clusters_in(other, matrix, clusters)
    /\ fn' = "compute_row_scores_for_clusters"
    /\ pc' = "returned"
    /\ qvalue' = None /\ result' = None /\ written' = {}
    /\ UNCHANGED <<prev_fn, prev_result>>
    /\ UNCHANGED inputs

\* the per-cluster loop of compute_column_scores, run for the membership
\* and for a second membership
ColumnScoresOfClusters ==
    /\ api = "cluster_scores" /\ pc = "ready"
    /\ \E c \in 1..num_clusters :
       \E other \in MembershipsAgreeingOn(membership, c, 1..num_clusters) :
          /\ other_membership' = other
          /\ other_clusters' = [i \in 1..num_clusters |-> i]
          /\ cluster_scores' = cluster_column_scores(membership, matrix, num_clusters)
          /\ other_cluster_scores' = cluster_column_scores(other, matrix, num_clusters)
    /\ fn' = "cluster_column_scores"
    /\ pc' = "returned"
    /\ qvalue' = None /\ result' = None /\ written' = {}
    /\ UNCHANGED <<prev_fn, prev_result>>
    /\ UNCHANGED inputs

Next == ComputeRowScores \/ ComputeColumnScores \/ SeedColumnMembers \/ Order
        \/ RowScoresOfClusters \/ ColumnScoresOfClusters

Spec == Init /\ [][Next]_vars

\* the calls of one kind only
SpecRowScoring == InitRowScoring /\ [][ComputeRowScores]_vars
SpecColumnScoring == InitColumnScoring /\ [][ComputeColumnScores]_vars
SpecScoring == (InitRowScoring \/ InitColumnScoring)
               /\ [][ComputeRowScores \/ ComputeColumnScores]_vars
SpecSeeding == InitSeeding /\ [][SeedColumnMembers]_vars
SpecOrder == InitOrder /\ [][Order]_vars
SpecClusterScores == InitClusterScores
                     /\ [][RowScoresOfClusters \/ ColumnScoresOfClusters]_vars
SpecCalls == (InitRowScoring \/ InitColumnScoring \/ InitSeeding)
             /\ [][ComputeRowScores \/ ComputeColumnScores \/ SeedColumnMembers]_vars
SpecSeedingAndOrder == (InitSeeding \/ InitOrder)
                       /\ [][SeedColumnMembers \/ Order]_vars

(***************************************************************************)
(* The claims, stated on the matrix and the membership by name             *)
(***************************************************************************)
Position(names, x) == CHOOSE i \in 1..Len(names) : names[i] = x

\* the value of the matrix for gene g under condition j
Cell(g, j) ==
    matrix.values[Position(matrix.row_names, g)][Position(matrix.col_names, j)]

RECURSIVE SeqOfSet(_)
SeqOfSet(S) ==
    IF S = {} THEN <<>>
    ELSE LET x == CHOOSE y \in S : TRUE IN <<x>> \o SeqOfSet(S \ {x})

\* the mean of F over the set S
MeanOver(S, F(_)) ==
    Let(SeqOfSet(S), LAMBDA s : Mean([i \in 1..Len(s) |-> F(s[i])]))

AllGenes == Range(matrix.row_names)
AllConds == Range(matrix.col_names)
MemberGenes(c) == {g \in AllGenes : c \in membership.rows[g]}
MemberConds(c) == {j \in AllConds : c \in membership.cols[j]}

\* m_j: the mean of column j over the member genes of cluster c
MemberMean(c, j) == MeanOver(MemberGenes(c), LAMBDA g : Cell(g, j))

\* ln(1e-99 + mean over c's member conditions of (M[g][j] - m_j)^2)
ClaimedRowScore(g, c) ==
    LogPlusEps(MeanOver(MemberConds(c),
                        LAMBDA j : Square(Sub(Cell(g, j), MemberMean(c, j)))))

RowScoresComputed == fn = "compute_row_scores"
RowScoresReturned == fn = "compute_row_scores" /\ pc = "returned"

\* the raw score the call computed for gene g and cluster c
RawScore(g, c) == cluster_scores[c].values[1][Position(matrix.row_names, g)]

\* the entry of the returned matrix in the row named g, for cluster c
ReturnedScore(g, c) == result.values[Position(result.row_names, g)][c]

\* C1: for every cluster with at least 2 member conditions, the raw row score
\* of every gene of the matrix, member or not, is
\* ln(1e-99 + mean over the member conditions j of (M[g][j] - m_j)^2), with
\* m_j the mean of column j over the member genes of the cluster
C1_RawRowScoreFormula ==
    RowScoresComputed =>
        \A c \in 1..num_clusters :
            Cardinality(MemberConds(c)) >= 2 =>
                /\ ~IsNone(cluster_scores[c])
                /\ cluster_scores[c].col_names = matrix.row_names
                /\ \A g \in AllGenes : RawScore(g, c) = ClaimedRowScore(g, c)

\* a cluster with two of the three conditions, a member gene and a gene that
\* is no member, whose finite scores differ
C1_Witness ==
    /\ RowScoresComputed
    /\ \E c \in 1..num_clusters :
          /\ Cardinality(MemberConds(c)) = 2
          /\ \E g \in MemberGenes(c), h \in AllGenes \ MemberGenes(c) :
                /\ isfinite(RawScore(g, c)) /\ isfinite(RawScore(h, c))
                /\ RawScore(g, c) # RawScore(h, c)

\* the finite raw scores of the (gene, cluster) pairs with the gene a member
ClaimedPool ==
    Let(SeqOfSet({<<g, c>> \in AllGenes \X (1..num_clusters) :
                     /\ Cardinality(MemberConds(c)) >= 2
                     /\ is_row_member_of(membership, g, c)
                     /\ isfinite(ClaimedRowScore(g, c))}),
        LAMBDA pairs : [i \in 1..Len(pairs) |-> ClaimedRowScore(pairs[i][1], pairs[i][2])])

ClaimedQuantile == quantile95(ClaimedPool)

\* C2: for a cluster with at most 1 member condition every gene's row score
\* is the one value q, the 95th percentile of the finite raw scores of the
\* (gene, cluster) pairs whose gene is a member of the cluster, pooled over
\* all clusters
C2_DegenerateClusterGetsQuantile ==
    RowScoresReturned =>
        \A q \in {ClaimedQuantile} :
            /\ qvalue = q
            /\ \A c \in 1..num_clusters :
                  Cardinality(MemberConds(c)) <= 1 =>
                      \A g \in AllGenes : ReturnedScore(g, c) = q

\* a cluster with exactly one condition next to a computed cluster, whose
\* member gene sets the quantile while the higher finite score of a gene
\* that is no member stays out of the pool
C2_Witness ==
    /\ RowScoresReturned
    /\ isfinite(qvalue)
    /\ \E c \in 1..num_clusters : Cardinality(MemberConds(c)) = 1
    /\ \E c \in 1..num_clusters :
          /\ Cardinality(MemberConds(c)) >= 2
          /\ \E g \in MemberGenes(c), h \in AllGenes \ MemberGenes(c) :
                /\ isfinite(RawScore(g, c)) /\ isfinite(RawScore(h, c))
                /\ qvalue = RawScore(g, c)
                /\ ~ScoreLeq(RawScore(h, c), qvalue)

\* the score the result should hold for gene g and cluster c
ExpectedScore(g, c) ==
    IF Cardinality(MemberConds(c)) <= 1 THEN qvalue
    ELSE Let(ClaimedRowScore(g, c), LAMBDA s : IF isfinite(s) THEN s ELSE qvalue)

\* C8: the returned matrix has one row per gene of the input, num_clusters
\* columns, its rows in ascending order of the gene names, and the row named
\* g holds the scores of gene g, column k those of cluster k
C8_ResultShapeAndOrder ==
    RowScoresReturned =>
        /\ Len(result.row_names) = Len(matrix.row_names)
        /\ Range(result.row_names) = Range(matrix.row_names)
        /\ \A i, k \in 1..Len(result.row_names) :
              i < k => NameRank(result.row_names[i]) < NameRank(result.row_names[k])
        /\ Len(result.values) = Len(result.row_names)
        /\ \A i \in 1..Len(result.values) :
              /\ Len(result.values[i]) = num_clusters
              /\ \A c \in 1..num_clusters :
                    result.values[i][c] = ExpectedScore(result.row_names[i], c)

\* an input whose rows are not in the order of their names, and whose genes
\* get different scores
C8_Witness ==
    /\ RowScoresReturned
    /\ result.row_names # matrix.row_names
    /\ result.values[1] # result.values[2]

AllFinite(m) ==
    \A i \in 1..Len(m.values) : \A j \in 1..Len(m.values[i]) : isfinite(m.values[i][j])

\* C9: within a cluster whose scores were computed, every non-finite raw
\* score is replaced by the quantile q and every finite one is left as it
\* is; when q is finite the returned matrix holds no non-finite entry
C9_NonFiniteReplaced ==
    RowScoresReturned =>
        /\ \A c \in 1..num_clusters :
              Cardinality(MemberConds(c)) >= 2 =>
                  \A g \in AllGenes :
                      ReturnedScore(g, c) =
                          IF isfinite(RawScore(g, c)) THEN RawScore(g, c) ELSE qvalue
        /\ isfinite(qvalue) => AllFinite(result)

\* a computed cluster with a non-finite score replaced by a finite quantile,
\* next to a finite score that is kept
C9_Witness ==
    /\ RowScoresReturned
    /\ isfinite(qvalue)
    /\ \E c \in 1..num_clusters :
          /\ Cardinality(MemberConds(c)) >= 2
          /\ \E g, h \in AllGenes :
                /\ ~isfinite(RawScore(g, c)) /\ ReturnedScore(g, c) = qvalue
                /\ isfinite(RawScore(h, c)) /\ ReturnedScore(h, c) # qvalue
ColumnScoresComputed == fn = "compute_column_scores"
ColumnScoresReturned == fn = "compute_column_scores" /\ pc = "returned"

\* the entry of the returned matrix in the row named j, for cluster c
ReturnedColumnScore(j, c) == result.values[Position(result.row_names, j)][c]

\* the average over the genes of S of (M[g][j] - m_j)^2 / (|m_j| + 0.01),
\* m_j the mean of column j over the member genes of cluster c
AverageDispersion(S, c, j) ==
    MeanOver(S, LAMBDA g : Div(Square(Sub(Cell(g, j), MemberMean(c, j))),
                               Add(Abs(MemberMean(c, j)), Fin(1, 100))))

\* C3 as claimed: for every cluster with at least 2 member genes the column
\* score of condition j is the average over ALL genes of the matrix of
\* (M[g][j] - m_j)^2 / (|m_j| + 0.01)
C3_Original_AverageOverAllGenes ==
    ColumnScoresReturned =>
        \A c \in 1..num_clusters :
            Cardinality(MemberGenes(c)) >= 2 =>
                \A j \in AllConds :
                    ReturnedColumnScore(j, c) = AverageDispersion(AllGenes, c, j)

\* C3 as amended: for every cluster with at least 2 member genes the column
\* score of condition j is the average over the MEMBER genes of the cluster
\* of (M[g][j] - m_j)^2 / (|m_j| + 0.01)
C3_AverageOverMemberGenes ==
    ColumnScoresReturned =>
        \A c \in 1..num_clusters :
            Cardinality(MemberGenes(c)) >= 2 =>
                \A j \in AllConds :
                    ReturnedColumnScore(j, c) = AverageDispersion(MemberGenes(c), c, j)

\* a cluster with two of the three genes, for which the average over the
\* members is finite and differs from the average over all genes
C3_Witness ==
    /\ ColumnScoresReturned
    /\ \E c \in 1..num_clusters, j \in AllConds :
          /\ Cardinality(MemberGenes(c)) = 2
          /\ isfinite(ReturnedColumnScore(j, c))
          /\ ReturnedColumnScore(j, c) # Fin(0, 1)
          /\ isfinite(AverageDispersion(AllGenes, c, j))
          /\ ReturnedColumnScore(j, c) # AverageDispersion(AllGenes, c, j)

\* C4 as claimed: a cluster with at most 1 member row has its column scores
\* recorded as None and the assembly of the result faults
C4_DegenerateClusterIsNoneAndFaults ==
    ColumnScoresComputed =>
        \A c \in 1..num_clusters :
            Cardinality(MemberGenes(c)) <= 1 =>
                IsNone(cluster_scores[c]) /\ pc = "fault"

SeedReturned == fn = "seed_column_members" /\ pc = "returned"
OrderReturned == fn = "order" /\ pc = "returned"

NumLeq(x, y) == x.n * y.d <= y.n * x.d
Min(a, b) == IF a < b THEN a ELSE b

\* the genes whose primary, first-listed cluster is c
PrimaryGenes(c) ==
    {matrix.row_names[r] : r \in {i \in 1..num_rows(matrix) : row_membership[i][1] = c}}

PrimaryMean(c, j) == MeanOver(PrimaryGenes(c), LAMBDA g : Cell(g, j))

\* the column score of condition j on the sub-matrix of the primary genes of c
PrimaryColumnScore(c, j) ==
    MeanOver(PrimaryGenes(c),
             LAMBDA g : Div(Square(Sub(Cell(g, j), PrimaryMean(c, j))),
                            Add(Abs(PrimaryMean(c, j)), Fin(1, 100))))

\* the column scores of condition j, per cluster
PrimaryColumnScores(j) == [c \in 1..num_clusters |-> PrimaryColumnScore(c, j)]

\* how often x occurs in the sequence s
Count(s, x) == Cardinality({i \in 1..Len(s) : s[i] = x})

Distinct(s) == \A i, k \in 1..Len(s) : i # k => s[i] # s[k]
StrictlyDescending(s) == \A i \in 1..(Len(s) - 1) : ~NumLeq(s[i], s[i + 1])

\* C6: order(L) has the length of L; its k-th entry is the 1-based index of
\* the first occurrence in L of the k-th element of L sorted in descending
\* order; for pairwise distinct values it is a permutation of 1..len(L)
\* along which the values strictly decrease, and for a strictly descending
\* L it is [1, 2, ..., len(L)]
C6_OrderIsDescendingFirstIndex ==
    OrderReturned =>
        /\ Len(result) = Len(alist)
        /\ \A k \in 1..Len(result) :
              /\ result[k] \in 1..Len(alist)
              /\ \A i \in 1..(result[k] - 1) : alist[i] # alist[result[k]]
              /\ k < Len(result) => NumLeq(alist[result[k + 1]], alist[result[k]])
        /\ \A i \in 1..Len(alist) :
              Cardinality({k \in 1..Len(result) : alist[result[k]] = alist[i]})
                  = Count(alist, alist[i])
        /\ Distinct(alist) =>
              /\ {result[k] : k \in 1..Len(result)} = 1..Len(alist)
              /\ StrictlyDescending([k \in 1..Len(result) |-> alist[result[k]]])
        /\ StrictlyDescending(alist) => result = [k \in 1..Len(alist) |-> k]

\* three distinct values that are not in descending order
C6_Witness ==
    /\ OrderReturned
    /\ Len(alist) = 3 /\ Distinct(alist) /\ ~StrictlyDescending(alist)
    /\ result # <<1, 2, 3>>

\* i is the first position of its value in s, and the value occurs again
FirstOfSeveral(s, i) ==
    /\ \A k \in 1..(i - 1) : s[k] # s[i]
    /\ \E k \in (i + 1)..Len(s) : s[k] = s[i]

\* C7: when a value occurs at positions i < j of L, order(L) holds i once
\* for each occurrence of the value and never holds j; a duplicated maximum
\* makes the first two entries equal; in seed_column_members two clusters
\* with the same score for a condition put the lower cluster id into the
\* condition's ranking once for each of them, and the other id is absent
C7_TiesRepeatFirstIndex ==
    /\ OrderReturned =>
          /\ \A i, j \in 1..Len(alist) :
                (i < j /\ alist[i] = alist[j]) => Count(result, j) = 0
          /\ \A i \in 1..Len(alist) :
                FirstOfSeveral(alist, i) => Count(result, i) = Count(alist, alist[i])
          /\ \A i \in 1..Len(alist) :
                (FirstOfSeveral(alist, i) /\ \A k \in 1..Len(alist) : NumLeq(alist[k], alist[i]))
                    => result[1] = result[2] /\ result[1] = i
    /\ SeedReturned =>
          \A j \in 1..Len(result) :
              \A sc \in {PrimaryColumnScores(matrix.col_names[j])} :
                 /\ \A a, b \in 1..num_clusters :
                       (a < b /\ sc[a] = sc[b]) => Count(result[j], b) = 0
                 /\ \A a \in 1..num_clusters :
                       (FirstOfSeveral(sc, a) /\ num_clusters_per_column >= num_clusters)
                           => Count(result[j], a) = Count(sc, sc[a])

\* a seeding of three clusters with a tie between two of them for a
\* condition, the full ranking kept: the lower id is listed twice, the
\* other id is missing and the third cluster is listed last
C7_Witness ==
    /\ SeedReturned
    /\ num_clusters_per_column >= num_clusters
    /\ \E j \in 1..Len(result) :
          \E a, b \in 1..num_clusters :
              /\ a < b
              /\ PrimaryColumnScore(a, matrix.col_names[j])
                     = PrimaryColumnScore(b, matrix.col_names[j])
              /\ Count(result[j], a) = 2
              /\ Count(result[j], b) = 0
              /\ num_clusters = 3 /\ result[j][3] \notin {a, b}

InputObjects == {InputMatrix, Object("membership", 0), Object("row_membership", 0)}

\* C11: a call of compute_row_scores, compute_column_scores or
\* seed_column_members leaves the input matrix (names and values), the
\* membership and the row membership as they were, and every item
\* assignment of the call goes to a matrix the call created
C11_InputsLeftUnchanged ==
    [][fn' \in {"compute_row_scores", "compute_column_scores", "seed_column_members"} =>
          /\ matrix' = matrix
          /\ membership' = membership
          /\ row_membership' = row_membership
          /\ written' \cap InputObjects = {}]_vars

\* a call that got a matrix with a non-finite value, replaced a non-finite
\* row score in place and returned finite scores
C11_Witness ==
    /\ RowScoresReturned
    /\ ~AllFinite(matrix)
    /\ AllFinite(result)
    /\ result_object \in written
    /\ \E c \in 1..num_clusters :
          /\ row_scores_object(c) \in written
          /\ \E g \in AllGenes : ~isfinite(RawScore(g, c))

ClusterScoresComputed ==
    fn \in {"compute_row_scores_for_clusters", "cluster_column_scores"}

\* the two memberships give cluster c the same genes and the same conditions
AgreeOn(c) ==
    /\ rows_for_cluster(membership, c) = rows_for_cluster(other_membership, c)
    /\ columns_for_cluster(membership, c) = columns_for_cluster(other_membership, c)

\* the scores computed for cluster c with the second membership
OtherScores(c) == other_cluster_scores[Position(other_clusters, c)]

\* C12: in both engines, two memberships that agree on the genes and the
\* conditions of cluster c give cluster c the same score vector, whatever
\* the other clusters hold and in whatever order the clusters are processed
C12_ClusterScoresOwnMembersOnly ==
    ClusterScoresComputed =>
        \A c \in 1..num_clusters :
            AgreeOn(c) => cluster_scores[c] = OtherScores(c)

\* row scores of a cluster on which the memberships agree, computed
\* second instead of first, while the other cluster differs in its genes
\* and gets different scores
C12_Witness ==
    /\ fn = "compute_row_scores_for_clusters"
    /\ other_clusters = <<2, 1>>
    /\ AgreeOn(1) /\ ~AgreeOn(2)
    /\ ~IsNone(cluster_scores[1])
    /\ \E g \in AllGenes : isfinite(RawScore(g, 1)) /\ RawScore(g, 1) # Fin(0, 1)
    /\ rows_for_cluster(membership, 2) # rows_for_cluster(other_membership, 2)
    /\ ~IsNone(cluster_scores[2]) /\ ~IsNone(OtherScores(2))
    /\ cluster_scores[2] # OtherScores(2)
====
